---- MODULE Spec2Model ----
(***************************************************************************)
(* cleanpkgcache (src/main.rs): a command-line tool that keeps the two     *)
(* most recently modified version directories of every package of a        *)
(* package cache and, on request, removes the checkpoints directory of     *)
(* every Roo task older than two months.                                   *)
(*                                                                         *)
(* The model is one invocation of main() after another on a filesystem     *)
(* that nothing else touches.  A directory is a function from entry slots  *)
(* to entries; read_dir yields the existing entries of a directory in      *)
(* slot order.  The order read_dir uses is platform dependent but fixed    *)
(* for an unchanged directory, and entry names carry no meaning for the    *)
(* program, so an entry is labelled by its position in that order.         *)
(* Every filesystem call that returns a Result may fail; a failure is a    *)
(* separate action.  The verbose flag only guards println! calls and is    *)
(* not part of the state.                                                  *)
(***************************************************************************)
EXTENDS Integers, Sequences, FiniteSets, TLC

(* Bounds of the model. *)
MaxVers == 4
MaxTime == 2
MaxTasks == 2

VARIABLES
    dry_run,                \* Args.dry_run
    clean_roo_checkpoints,  \* Args.clean_roo_checkpoints
    root_kind,              \* what Args.path names: "missing", "file" or "dir"
    cache,                  \* the package cache tree below Args.path
    base_exists,            \* which ROO_TASK_PATHS directories exist
    tasks,                  \* the task entries of each ROO_TASK_PATHS directory
    pc,                     \* position of the run in main()
    entry_i,                \* position of the first-pass read_dir iterator
    packages,               \* HashMap<String, Vec<PackageVersion>>
    packages_count,
    remaining,              \* keys of packages the second pass has not visited
    to_delete,              \* rest of the to_delete iterator of the current package
    cur_pkg,                \* package_name of the current second-pass iteration
    total_deleted,
    total_kept,
    base_i,                 \* index into ROO_TASK_PATHS
    task_i,                 \* position of the read_dir iterator of the base (0: not opened)
    tasks_checked,
    checkpoints_targets,
    summary,                \* the "Summary:" block printed by clean_package_cache
    roo_summary,            \* the "Roo checkpoints summary:" block
    pkg_reported,           \* paths printed as "Would delete:"
    pkg_deleted,            \* paths removed by clean_package_cache in this run
    roo_reported,           \* paths printed as "Would delete checkpoints:"
    roo_deleted,            \* checkpoints paths removed in this run
    inspected,              \* tasks counted in tasks_checked in this run
    failure,                \* the filesystem call that failed in this run
    run,                    \* number of the invocation
    start,                  \* the filesystem when the invocation started
    prev                    \* what the previous invocation reported and removed

vars == << dry_run, clean_roo_checkpoints, root_kind, cache, base_exists, tasks,
           pc, entry_i, packages, packages_count, remaining, to_delete, cur_pkg,
           total_deleted, total_kept, base_i, task_i, tasks_checked,
           checkpoints_targets, summary, roo_summary, pkg_reported, pkg_deleted,
           roo_reported, roo_deleted, inspected, failure, run, start, prev >>

fsVars == << root_kind, cache, base_exists, tasks >>
argVars == << dry_run, clean_roo_checkpoints >>
pkgVars == << entry_i, packages, packages_count, remaining, to_delete, cur_pkg,
              total_deleted, total_kept, summary, pkg_reported, pkg_deleted >>
rooVars == << base_i, task_i, tasks_checked, checkpoints_targets, roo_summary,
              roo_reported, roo_deleted, inspected >>
histVars == << run, start, prev >>

-----------------------------------------------------------------------------
(* Durations and system times: whole seconds and nanoseconds. *)

NANOS_PER_SEC == 1000 * 1000 * 1000

TWO_MONTHS_IN_SECONDS == 60 * 24 * 60 * 60

Time(s, n) == [secs |-> s, nanos |-> n]

ZERO == Time(0, 0)

from_secs(s) == Time(s, 0)

\* Ord for Duration and SystemTime: a < b
TimeLess(a, b) ==
    \/ a.secs < b.secs
    \/ a.secs = b.secs /\ a.nanos < b.nanos

\* SystemTime::duration_since(earlier).unwrap_or(Duration::ZERO)
DurationSinceMax(later, earlier) ==
    IF TimeLess(later, earlier)
    THEN Time(4 * TWO_MONTHS_IN_SECONDS, 0)
    ELSE IF later.nanos >= earlier.nanos
         THEN Time(later.secs - earlier.secs, later.nanos - earlier.nanos)
         ELSE Time(later.secs - earlier.secs - 1,
                   later.nanos + NANOS_PER_SEC - earlier.nanos)

duration_since(later, earlier) ==
    IF TimeLess(later, earlier)
    THEN ZERO
    ELSE IF later.nanos >= earlier.nanos
         THEN Time(later.secs - earlier.secs, later.nanos - earlier.nanos)
         ELSE Time(later.secs - earlier.secs - 1,
                   later.nanos + NANOS_PER_SEC - earlier.nanos)

\* age < two_months  (line 221)
AgeAtMostThreshold(age) ==
    ~ TimeLess(from_secs(TWO_MONTHS_IN_SECONDS), age)

BelowThreshold(age) ==
    TimeLess(age, from_secs(TWO_MONTHS_IN_SECONDS))

\* SystemTime::now() of the run
Now == Time(2 * TWO_MONTHS_IN_SECONDS, 0)

-----------------------------------------------------------------------------
(* The filesystem. *)

Pkgs == {"pkgA", "pkgB"}

\* read_dir order of the cache root
PkgOrder == << "pkgA", "pkgB" >>

VersOf(p) == IF p = "pkgA" THEN 1..MaxVers ELSE 1..1

Bases == 1..2

TasksOf(b) == IF b = 1 THEN 1..MaxTasks ELSE 1..1

NoVersion == [kind |-> "none", modified |-> 0]
FileVersion == [kind |-> "file", modified |-> 0]
DirVersion(t) == [kind |-> "dir", modified |-> t]

NoPackage(p) == [kind |-> "none", vers |-> [v \in VersOf(p) |-> NoVersion]]
FilePackage(p) == [kind |-> "file", vers |-> [v \in VersOf(p) |-> NoVersion]]
DirPackage(f) == [kind |-> "dir", vers |-> f]

NoTask == [kind |-> "none", modified |-> ZERO, checkpoints |-> FALSE]
FileTask == [kind |-> "file", modified |-> ZERO, checkpoints |-> FALSE]
DirTask(t, c) == [kind |-> "dir", modified |-> t, checkpoints |-> c]

\* modification times around the two-month boundary, and one in the future
TaskTimes ==
    { Time(Now.secs, 1),
      Time(Now.secs - TWO_MONTHS_IN_SECONDS, 1),
      Time(Now.secs - TWO_MONTHS_IN_SECONDS, 0),
      Time(Now.secs - TWO_MONTHS_IN_SECONDS - 1, NANOS_PER_SEC - 1) }

Times == 1..MaxTime

PkgAStates ==
    { NoPackage("pkgA"), FilePackage("pkgA") } \cup
    { DirPackage(f) : f \in [VersOf("pkgA") -> {NoVersion} \cup {DirVersion(t) : t \in Times}] }

PkgBStates ==
    { NoPackage("pkgB"), FilePackage("pkgB") } \cup
    { DirPackage(f) :
        f \in [VersOf("pkgB") -> {NoVersion, FileVersion} \cup {DirVersion(t) : t \in Times}] }

EmptyCache == [p \in Pkgs |-> NoPackage(p)]

\* the example of the specification: pkgA/{1.0 (t=100), 1.1 (t=200), 1.2 (t=300)}, pkgB/{2.0 (t=50)}
ExampleCache ==
    [p \in Pkgs |->
        IF p = "pkgA"
        THEN DirPackage([v \in VersOf(p) |->
                 IF v <= 3 THEN DirVersion(100 * v) ELSE NoVersion])
        ELSE DirPackage([v \in VersOf(p) |-> DirVersion(50)])]

TaskStates ==
    { NoTask, FileTask } \cup { DirTask(t, c) : t \in TaskTimes, c \in BOOLEAN }

NoTasks == [b \in Bases |-> [s \in TasksOf(b) |-> NoTask]]

OldTask == DirTask(Time(Now.secs - TWO_MONTHS_IN_SECONDS - 1, NANOS_PER_SEC - 1), TRUE)

\* one old task with checkpoints under the first base, the second base missing
SmallTasks == [NoTasks EXCEPT ![1][1] = OldTask]

-----------------------------------------------------------------------------
(* Sequences. *)

Take(s, n) == SubSeq(s, 1, IF Len(s) < n THEN Len(s) ELSE n)

Skip(s, n) == SubSeq(s, n + 1, Len(s))

\* x placed behind every element that does not compare greater than it
InsertOldestFirst(sorted, x) ==
    LET k == Cardinality({ i \in 1..Len(sorted) : sorted[i].modified <= x.modified })
    IN  SubSeq(sorted, 1, k) \o << x >> \o SubSeq(sorted, k + 1, Len(sorted))

InsertNewestFirst(sorted, x) ==
    LET k == Cardinality({ i \in 1..Len(sorted) : sorted[i].modified >= x.modified })
    IN  SubSeq(sorted, 1, k) \o << x >> \o SubSeq(sorted, k + 1, Len(sorted))

RECURSIVE SortOldestFirstUpTo(_, _)
SortOldestFirstUpTo(s, n) ==
    IF n = 0 THEN << >> ELSE InsertOldestFirst(SortOldestFirstUpTo(s, n - 1), s[n])

RECURSIVE SortNewestFirstUpTo(_, _)
SortNewestFirstUpTo(s, n) ==
    IF n = 0 THEN << >> ELSE InsertNewestFirst(SortNewestFirstUpTo(s, n - 1), s[n])

SortOldestFirst(versions) == SortOldestFirstUpTo(versions, Len(versions))

\* versions.sort_by(|a, b| b.modified.cmp(&a.modified)): stable, newest first
SortNewestFirst(versions) == SortNewestFirstUpTo(versions, Len(versions))

\* versions.iter().take(2)
to_keep(versions) == Take(versions, 2)

SkipTwoTakeOne(versions) == Take(Skip(versions, 2), 1)

\* versions.iter().skip(2)
SkipTwo(versions) == Skip(versions, 2)

-----------------------------------------------------------------------------
(* What the program reads from the filesystem. *)

\* fs::read_dir(cache_path)
RootEntries == SelectSeq(PkgOrder, LAMBDA p : cache[p].kind # "none")

RECURSIVE VersionsUpTo(_, _)
VersionsUpTo(p, n) ==
    IF n = 0 THEN << >>
    ELSE LET e == cache[p].vers[n]
         IN  IF e.kind = "dir"
             THEN Append(VersionsUpTo(p, n - 1), [name |-> n, modified |-> e.modified])
             ELSE VersionsUpTo(p, n - 1)

\* the inner loop of the first pass: the version directories of package p
ReadVersions(p) == VersionsUpTo(p, Cardinality(VersOf(p)))

RECURSIVE TaskEntriesUpTo(_, _)
TaskEntriesUpTo(b, n) ==
    IF n = 0 THEN << >>
    ELSE IF tasks[b][n].kind # "none"
         THEN Append(TaskEntriesUpTo(b, n - 1), n)
         ELSE TaskEntriesUpTo(b, n - 1)

\* fs::read_dir(base_dir)
TaskEntries(b) == TaskEntriesUpTo(b, Cardinality(TasksOf(b)))

\* fs::remove_dir_all(&version.path)
RemoveVersion(c, p, v) == [c EXCEPT ![p].vers[v] = NoVersion]

\* fs::remove_dir_all(&checkpoints_path): the task directory loses an entry,
\* which sets its modification time
RemoveCheckpoints(t, b, s) ==
    [t EXCEPT ![b][s] = DirTask(Now, FALSE)]

NoSummary == [printed |-> FALSE, packages |-> 0, kept |-> 0, deleted |-> 0]

NoRooSummary == [printed |-> FALSE, inspected |-> 0, targets |-> 0]

EmptyMap == [p \in {} |-> << >>]

NoPrev == [ran |-> FALSE, dry_run |-> FALSE, summary |-> NoSummary,
           pkg_reported |-> {}, pkg_deleted |-> {},
           roo_reported |-> {}, roo_deleted |-> {}]

Snapshot == [cache |-> cache, tasks |-> tasks]

-----------------------------------------------------------------------------
(* Initial states. *)

InitFs ==
    \/ /\ root_kind = "dir"
       /\ cache \in { [p \in Pkgs |-> IF p = "pkgA" THEN a ELSE b] :
                        a \in PkgAStates, b \in PkgBStates } \cup { ExampleCache }
       /\ base_exists = [b \in Bases |-> b = 1]
       /\ tasks = SmallTasks
    \/ /\ root_kind = "file"
       /\ cache = EmptyCache
       /\ base_exists = [b \in Bases |-> b = 1]
       /\ tasks = SmallTasks
    \/ /\ root_kind = "missing"
       /\ cache = EmptyCache
       /\ base_exists \in [Bases -> BOOLEAN]
       /\ \E t1 \in [TasksOf(1) -> TaskStates], t2 \in {NoTask, OldTask} :
            tasks = [b \in Bases |->
                        IF ~ base_exists[b] THEN NoTasks[b]
                        ELSE IF b = 1 THEN t1 ELSE [s \in TasksOf(b) |-> t2]]

Init ==
    /\ dry_run \in BOOLEAN
    /\ clean_roo_checkpoints \in BOOLEAN
    /\ InitFs
    /\ pc = "main"
    /\ entry_i = 1
    /\ packages = EmptyMap
    /\ packages_count = 0
    /\ remaining = {}
    /\ to_delete = << >>
    /\ cur_pkg = ""
    /\ total_deleted = 0
    /\ total_kept = 0
    /\ base_i = 1
    /\ task_i = 0
    /\ tasks_checked = 0
    /\ checkpoints_targets = 0
    /\ summary = NoSummary
    /\ roo_summary = NoRooSummary
    /\ pkg_reported = {}
    /\ pkg_deleted = {}
    /\ roo_reported = {}
    /\ roo_deleted = {}
    /\ inspected = {}
    /\ failure = "none"
    /\ run = 1
    /\ start = Snapshot
    /\ prev = NoPrev

-----------------------------------------------------------------------------
(* main *)

\* args.path.exists() && args.path.is_dir()
should_clean_packages == root_kind = "dir"

path_error_missing_only ==
    root_kind = "missing" /\ ~ clean_roo_checkpoints

\* the branch of main that bails
path_error ==
    ~ should_clean_packages /\ ~ clean_roo_checkpoints

Main ==
    /\ pc = "main"
    /\ IF should_clean_packages
       THEN pc' = "scan" /\ failure' = failure
       ELSE IF path_error
            THEN pc' = "error" /\ failure' = "invalid_path"
            ELSE pc' = "main_roo" /\ failure' = failure
    /\ UNCHANGED << fsVars, argVars, pkgVars, rooVars, histVars >>

\* if args.clean_roo_checkpoints { clean_roo_checkpoints(..)? }  Ok(())
MainRoo ==
    /\ pc = "main_roo"
    /\ pc' = IF clean_roo_checkpoints THEN "roo" ELSE "done"
    /\ UNCHANGED << fsVars, argVars, pkgVars, rooVars, histVars, failure >>

-----------------------------------------------------------------------------
(* clean_package_cache, first pass *)

\* packages.insert(package_name, versions) unless versions.is_empty()
InsertAlways(m, p, versions) ==
    [q \in DOMAIN m \cup {p} |-> IF q = p THEN versions ELSE m[q]]

InsertNonEmpty(m, p, versions) ==
    IF versions = << >> THEN m
    ELSE [q \in DOMAIN m \cup {p} |-> IF q = p THEN versions ELSE m[q]]

\* a single pass: the versions behind the newest two are removed as soon as
\* the package is read
ScanEntryAndClean ==
    /\ pc = "scan"
    /\ entry_i <= Len(RootEntries)
    /\ LET p == RootEntries[entry_i]
           old == IF cache[p].kind = "dir" /\ ~ dry_run
                  THEN SkipTwo(SortNewestFirst(ReadVersions(p)))
                  ELSE << >>
           names == { old[i].name : i \in 1..Len(old) }
       IN  /\ packages' = IF cache[p].kind = "dir"
                          THEN InsertNonEmpty(packages, p, ReadVersions(p))
                          ELSE packages
           /\ cache' = [cache EXCEPT ![p].vers =
                           [v \in VersOf(p) |-> IF v \in names THEN NoVersion ELSE @[v]]]
           /\ pkg_deleted' = pkg_deleted \cup { << p, v >> : v \in names }
    /\ entry_i' = entry_i + 1
    /\ UNCHANGED << root_kind, base_exists, tasks, argVars, rooVars, histVars, pc, failure,
                    packages_count, remaining, to_delete, cur_pkg, total_deleted,
                    total_kept, summary, pkg_reported >>

\* one iteration of the outer loop
ScanEntry ==
    /\ pc = "scan"
    /\ entry_i <= Len(RootEntries)
    /\ LET p == RootEntries[entry_i]
       IN  packages' = IF cache[p].kind = "dir"
                       THEN InsertNonEmpty(packages, p, ReadVersions(p))
                       ELSE packages
    /\ entry_i' = entry_i + 1
    /\ UNCHANGED << fsVars, argVars, rooVars, histVars, pc, failure,
                    packages_count, remaining, to_delete, cur_pkg, total_deleted,
                    total_kept, summary, pkg_reported, pkg_deleted >>

\* fs::read_dir(cache_path) or the next entry of it is an Err
ReadRootFail ==
    /\ pc = "scan"
    /\ pc' = "error"
    /\ failure' = "read_root"
    /\ UNCHANGED << fsVars, argVars, pkgVars, rooVars, histVars >>

\* fs::read_dir(&path), an entry of it or fs::metadata(&version_path) is an Err
ScanEntryFail ==
    /\ pc = "scan"
    /\ entry_i <= Len(RootEntries)
    /\ cache[RootEntries[entry_i]].kind = "dir"
    /\ pc' = "error"
    /\ failure' = "read_package"
    /\ UNCHANGED << fsVars, argVars, pkgVars, rooVars, histVars >>

\* the outer loop is over: total_deleted = 0, total_kept = 0, packages_count = packages.len()
StartSecondPass ==
    /\ pc = "scan"
    /\ entry_i > Len(RootEntries)
    /\ pc' = "clean"
    /\ total_deleted' = 0
    /\ total_kept' = 0
    /\ packages_count' = Cardinality(DOMAIN packages)
    /\ remaining' = DOMAIN packages
    /\ UNCHANGED << fsVars, argVars, rooVars, histVars, failure, entry_i, packages,
                    to_delete, cur_pkg, summary, pkg_reported, pkg_deleted >>

-----------------------------------------------------------------------------
(* clean_package_cache, second pass *)

\* an iteration of "for (package_name, mut versions) in packages" up to the
\* to_keep loop; a HashMap iterates in an arbitrary order
BeginPackage ==
    /\ pc = "clean"
    /\ to_delete = << >>
    /\ \E p \in remaining :
        LET versions == SortNewestFirst(packages[p])
        IN  /\ cur_pkg' = p
            /\ remaining' = remaining \ {p}
            /\ total_kept' = total_kept + Len(to_keep(versions))
            /\ to_delete' = SkipTwo(versions)
    /\ UNCHANGED << fsVars, argVars, rooVars, histVars, pc, failure, entry_i, packages,
                    packages_count, total_deleted, summary, pkg_reported, pkg_deleted >>

\* dry run that removes the directory all the same
ReportAndDelete ==
    /\ pc = "clean"
    /\ to_delete # << >>
    /\ dry_run
    /\ pkg_reported' = pkg_reported \cup { << cur_pkg, Head(to_delete).name >> }
    /\ cache' = RemoveVersion(cache, cur_pkg, Head(to_delete).name)
    /\ total_deleted' = total_deleted + 1
    /\ to_delete' = Tail(to_delete)
    /\ UNCHANGED << root_kind, base_exists, tasks, argVars, rooVars, histVars, pc, failure,
                    entry_i, packages, packages_count, remaining, cur_pkg, total_kept,
                    summary, pkg_deleted >>

\* dry run: println!("  Would delete: ..")
ReportWouldDelete ==
    /\ pc = "clean"
    /\ to_delete # << >>
    /\ dry_run
    /\ pkg_reported' = pkg_reported \cup { << cur_pkg, Head(to_delete).name >> }
    /\ total_deleted' = total_deleted + 1
    /\ to_delete' = Tail(to_delete)
    /\ UNCHANGED << fsVars, argVars, rooVars, histVars, pc, failure, entry_i, packages,
                    packages_count, remaining, cur_pkg, total_kept, summary, pkg_deleted >>

\* live run: fs::remove_dir_all(&version.path) is Ok
DeleteVersion ==
    /\ pc = "clean"
    /\ to_delete # << >>
    /\ ~ dry_run
    /\ cache' = RemoveVersion(cache, cur_pkg, Head(to_delete).name)
    /\ pkg_deleted' = pkg_deleted \cup { << cur_pkg, Head(to_delete).name >> }
    /\ total_deleted' = total_deleted + 1
    /\ to_delete' = Tail(to_delete)
    /\ UNCHANGED << root_kind, base_exists, tasks, argVars, rooVars, histVars, pc, failure,
                    entry_i, packages, packages_count, remaining, cur_pkg, total_kept,
                    summary, pkg_reported >>

\* the failure is recorded and the loop goes on with the next version
DeleteVersionFailContinue ==
    /\ pc = "clean"
    /\ to_delete # << >>
    /\ ~ dry_run
    /\ failure' = "remove_version"
    /\ to_delete' = Tail(to_delete)
    /\ UNCHANGED << fsVars, argVars, rooVars, histVars, pc, entry_i, packages,
                    packages_count, remaining, cur_pkg, total_deleted, total_kept,
                    summary, pkg_reported, pkg_deleted >>

\* live run: fs::remove_dir_all(&version.path) is an Err
DeleteVersionFail ==
    /\ pc = "clean"
    /\ to_delete # << >>
    /\ ~ dry_run
    /\ pc' = "error"
    /\ failure' = "remove_version"
    /\ UNCHANGED << fsVars, argVars, pkgVars, rooVars, histVars >>

\* println!("\nSummary:") .. Ok(())
PrintSummary ==
    /\ pc = "clean"
    /\ to_delete = << >>
    /\ remaining = {}
    /\ summary' = [printed |-> TRUE, packages |-> packages_count,
                   kept |-> total_kept, deleted |-> total_deleted]
    /\ pc' = "main_roo"
    /\ UNCHANGED << fsVars, argVars, rooVars, histVars, failure, entry_i, packages,
                    packages_count, remaining, to_delete, cur_pkg, total_deleted,
                    total_kept, pkg_reported, pkg_deleted >>

-----------------------------------------------------------------------------
(* clean_roo_checkpoints *)

\* the task was modified at least two months before now
Eligible(t) == ~ BelowThreshold(duration_since(Now, t.modified))

IsTargetUnchecked(t) == Eligible(t)

\* the task's checkpoints directory is a target: neither continue is taken
IsTarget(t) == Eligible(t) /\ t.checkpoints

\* the entry the read_dir iterator of the current base is at
CurTask == TaskEntries(base_i)[task_i]

AtTask ==
    /\ pc = "roo"
    /\ base_i <= 2
    /\ task_i >= 1
    /\ task_i <= Len(TaskEntries(base_i))

\* if !base_dir.exists() { continue; }
RooSkipBase ==
    /\ pc = "roo"
    /\ base_i <= 2
    /\ task_i = 0
    /\ ~ base_exists[base_i]
    /\ base_i' = base_i + 1
    /\ UNCHANGED << fsVars, argVars, pkgVars, histVars, pc, failure, task_i, tasks_checked,
                    checkpoints_targets, roo_summary, roo_reported, roo_deleted, inspected >>

\* fs::read_dir(base_dir) is Ok
RooReadDir ==
    /\ pc = "roo"
    /\ base_i <= 2
    /\ task_i = 0
    /\ base_exists[base_i]
    /\ task_i' = 1
    /\ UNCHANGED << fsVars, argVars, pkgVars, histVars, pc, failure, base_i, tasks_checked,
                    checkpoints_targets, roo_summary, roo_reported, roo_deleted, inspected >>

\* fs::read_dir(base_dir) or the next entry of it is an Err
RooReadDirFail ==
    /\ pc = "roo"
    /\ base_i <= 2
    /\ base_exists[base_i]
    /\ pc' = "error"
    /\ failure' = "read_base"
    /\ UNCHANGED << fsVars, argVars, pkgVars, rooVars, histVars >>

\* one iteration of the loop over the entries of a base directory, every call Ok
RooTask ==
    /\ AtTask
    /\ LET s == CurTask
           t == tasks[base_i][s]
       IN  IF t.kind # "dir"
           THEN UNCHANGED << tasks, tasks_checked, checkpoints_targets, roo_reported,
                             roo_deleted, inspected >>
           ELSE /\ tasks_checked' = tasks_checked + 1
                /\ inspected' = inspected \cup { << base_i, s >> }
                /\ IF ~ IsTarget(t)
                   THEN UNCHANGED << tasks, checkpoints_targets, roo_reported, roo_deleted >>
                   ELSE /\ checkpoints_targets' = checkpoints_targets + 1
                        /\ IF dry_run
                           THEN /\ roo_reported' = roo_reported \cup { << base_i, s >> }
                                /\ UNCHANGED << tasks, roo_deleted >>
                           ELSE /\ tasks' = RemoveCheckpoints(tasks, base_i, s)
                                /\ roo_deleted' = roo_deleted \cup { << base_i, s >> }
                                /\ UNCHANGED roo_reported
    /\ task_i' = task_i + 1
    /\ UNCHANGED << root_kind, cache, base_exists, argVars, pkgVars, histVars, pc, failure,
                    base_i, roo_summary >>

\* fs::metadata(&task_path) or metadata.modified() is an Err
RooMetadataFail ==
    /\ AtTask
    /\ tasks[base_i][CurTask].kind = "dir"
    /\ tasks_checked' = tasks_checked + 1
    /\ inspected' = inspected \cup { << base_i, CurTask >> }
    /\ pc' = "error"
    /\ failure' = "task_metadata"
    /\ UNCHANGED << fsVars, argVars, pkgVars, histVars, base_i, task_i, checkpoints_targets,
                    roo_summary, roo_reported, roo_deleted >>

\* live run: fs::remove_dir_all(&checkpoints_path) is an Err
RooRemoveFail ==
    /\ AtTask
    /\ tasks[base_i][CurTask].kind = "dir"
    /\ IsTarget(tasks[base_i][CurTask])
    /\ ~ dry_run
    /\ tasks_checked' = tasks_checked + 1
    /\ inspected' = inspected \cup { << base_i, CurTask >> }
    /\ pc' = "error"
    /\ failure' = "remove_checkpoints"
    /\ UNCHANGED << fsVars, argVars, pkgVars, histVars, base_i, task_i, checkpoints_targets,
                    roo_summary, roo_reported, roo_deleted >>

\* the read_dir iterator of the base is exhausted
RooEndBase ==
    /\ pc = "roo"
    /\ base_i <= 2
    /\ task_i > Len(TaskEntries(base_i))
    /\ base_i' = base_i + 1
    /\ task_i' = 0
    /\ UNCHANGED << fsVars, argVars, pkgVars, histVars, pc, failure, tasks_checked,
                    checkpoints_targets, roo_summary, roo_reported, roo_deleted, inspected >>

\* println!("Roo checkpoints summary:") .. Ok(())
RooSummary ==
    /\ pc = "roo"
    /\ base_i > 2
    /\ roo_summary' = [printed |-> TRUE, inspected |-> tasks_checked,
                       targets |-> checkpoints_targets]
    /\ pc' = "done"
    /\ UNCHANGED << fsVars, argVars, pkgVars, histVars, failure, base_i, task_i,
                    tasks_checked, checkpoints_targets, roo_reported, roo_deleted, inspected >>

-----------------------------------------------------------------------------
(* The program is started again, without --dry-run, with the same path and
   the same --clean-roo-checkpoints after a run that exited with status 0. *)

Rerun ==
    /\ pc = "done"
    /\ run = 1
    /\ run' = 2
    /\ dry_run' = FALSE
    /\ start' = Snapshot
    /\ prev' = [ran |-> TRUE, dry_run |-> dry_run, summary |-> summary,
                pkg_reported |-> pkg_reported, pkg_deleted |-> pkg_deleted,
                roo_reported |-> roo_reported, roo_deleted |-> roo_deleted]
    /\ pc' = "main"
    /\ entry_i' = 1
    /\ packages' = EmptyMap
    /\ packages_count' = 0
    /\ remaining' = {}
    /\ to_delete' = << >>
    /\ cur_pkg' = ""
    /\ total_deleted' = 0
    /\ total_kept' = 0
    /\ base_i' = 1
    /\ task_i' = 0
    /\ tasks_checked' = 0
    /\ checkpoints_targets' = 0
    /\ summary' = NoSummary
    /\ roo_summary' = NoRooSummary
    /\ pkg_reported' = {}
    /\ pkg_deleted' = {}
    /\ roo_reported' = {}
    /\ roo_deleted' = {}
    /\ inspected' = {}
    /\ failure' = "none"
    /\ UNCHANGED << fsVars, clean_roo_checkpoints >>

Next ==
    \/ Main
    \/ MainRoo
    \/ ScanEntry
    \/ ReadRootFail
    \/ ScanEntryFail
    \/ StartSecondPass
    \/ BeginPackage
    \/ ReportWouldDelete
    \/ DeleteVersion
    \/ DeleteVersionFail
    \/ PrintSummary
    \/ RooSkipBase
    \/ RooReadDir
    \/ RooReadDirFail
    \/ RooTask
    \/ RooMetadataFail
    \/ RooRemoveFail
    \/ RooEndBase
    \/ RooSummary
    \/ Rerun

Spec == Init /\ [][Next]_vars

-----------------------------------------------------------------------------
(* Properties.  They read the filesystem at the start of the run (start) and
   the filesystem now, and count with sets. *)

Min2(n) == IF n < 2 THEN n ELSE 2

Over2(n) == IF n > 2 THEN n - 2 ELSE 0

\* the version directories of package p in cache tree c
VersionDirs(c, p) ==
    IF c[p].kind = "dir" THEN { v \in VersOf(p) : c[p].vers[v].kind = "dir" } ELSE {}

AllTasks == { << b, s >> : b \in Bases, s \in 1..(MaxTasks + 1) } \cap
            { x \in Bases \X (1..(MaxTasks + 1)) : x[2] \in TasksOf(x[1]) }

StartTask(x) == start.tasks[x[1]][x[2]]

DirTasks == { x \in AllTasks : StartTask(x).kind = "dir" }

\* the loop of clean_roo_checkpoints has finished the iteration for entry x
Processed(x) ==
    /\ pc \in {"roo", "done", "error"}
    /\ \/ x[1] < base_i
       \/ /\ x[1] = base_i
          /\ Cardinality({ s \in TasksOf(x[1]) :
                             s <= x[2] /\ start.tasks[x[1]][s].kind # "none" }) < task_i

BoundarySecs == Now.secs - TWO_MONTHS_IN_SECONDS

\* now - modified = the threshold
AgeIsThreshold(t) == t.modified.secs = BoundarySecs /\ t.modified.nanos = 0

\* now - modified = the threshold plus a nanosecond
AgeJustOver(t) == t.modified.secs = BoundarySecs - 1 /\ t.modified.nanos = NANOS_PER_SEC - 1

\* now - modified = the threshold minus a nanosecond
AgeJustBelow(t) == t.modified.secs = BoundarySecs /\ t.modified.nanos = 1

\* modified is later than now
InFuture(t) ==
    \/ t.modified.secs > Now.secs
    \/ t.modified.secs = Now.secs /\ t.modified.nanos > Now.nanos

\* now - modified >= the threshold
OldEnough(t) ==
    \/ t.modified.secs < BoundarySecs
    \/ t.modified.secs = BoundarySecs /\ t.modified.nanos = 0

Targets == { x \in DirTasks : OldEnough(StartTask(x)) /\ StartTask(x).checkpoints }

PackageFailures == {"read_root", "read_package", "remove_version"}

RooFailures == {"read_base", "task_metadata", "remove_checkpoints"}

(* C1: after a live run of clean_package_cache that completes, every package
   directory that had V version directories has min(V, 2) of them left and
   max(V - 2, 0) removed, the removed ones are exactly the ones missing, and
   no removed version is newer than a remaining one. *)
C1_KeepsNewestTwo ==
    (summary.printed /\ ~ dry_run) =>
        \A p \in Pkgs :
            LET V == VersionDirs(start.cache, p)
                R == VersionDirs(cache, p)
                D == { v \in VersOf(p) : << p, v >> \in pkg_deleted }
            IN  /\ R \subseteq V
                /\ D = V \ R
                /\ Cardinality(R) = Min2(Cardinality(V))
                /\ Cardinality(D) = Over2(Cardinality(V))
                /\ \A r \in R, d \in D :
                       start.cache[p].vers[r].modified >= start.cache[p].vers[d].modified
                /\ \A r \in R : cache[p].vers[r] = start.cache[p].vers[r]

C1_Witness ==
    /\ summary.printed
    /\ ~ dry_run
    /\ Cardinality(VersionDirs(start.cache, "pkgA")) = 4
    /\ Cardinality(VersionDirs(cache, "pkgA")) = 2
    /\ \E r \in VersionDirs(cache, "pkgA"), d \in VersionDirs(start.cache, "pkgA") :
           /\ << "pkgA", d >> \in pkg_deleted
           /\ start.cache["pkgA"].vers[r].modified = start.cache["pkgA"].vers[d].modified

(* C2: a dry run changes no directory, in the package cleaner and in the
   checkpoint pruner, and the paths it reports are the paths that the live run
   started next on the same filesystem with the same arguments removes. *)
C2_DryRunNeverMutates ==
    /\ dry_run =>
           /\ cache = start.cache
           /\ tasks = start.tasks
           /\ pkg_deleted = {}
           /\ roo_deleted = {}
    /\ (run = 2 /\ prev.dry_run /\ ~ dry_run /\ pc = "done") =>
           /\ pkg_deleted = prev.pkg_reported
           /\ roo_deleted = prev.roo_reported

C2_Witness ==
    /\ run = 2
    /\ prev.dry_run
    /\ ~ dry_run
    /\ pc = "done"
    /\ Cardinality(pkg_deleted) = 2
    /\ roo_deleted # {}

(* C3: a live run of clean_package_cache after a live run that completed
   removes nothing and leaves the cache as the first run left it. *)
C3_Idempotent ==
    (run = 2 /\ prev.summary.printed /\ ~ prev.dry_run /\ ~ dry_run) =>
        /\ total_deleted = 0
        /\ pkg_deleted = {}
        /\ cache = start.cache
        /\ summary.printed => summary.deleted = 0

C3_Witness ==
    /\ run = 2
    /\ prev.summary.printed
    /\ ~ prev.dry_run
    /\ ~ dry_run
    /\ prev.summary.deleted = 2
    /\ summary.printed
    /\ summary.kept = 3

(* C4 as claimed: whatever the flags, a cache path that is missing or is not
   a directory never lets the run exit successfully. *)
C4_InvalidPathAlwaysFatal ==
    root_kind # "dir" => pc # "done"

(* C4 as amended: a cache path that is missing or not a directory is fatal
   when --clean-roo-checkpoints is not given; when it is given the package
   cleaner is skipped without an error and the run goes on to the pruner. *)
C4_InvalidPathFatalUnlessRoo ==
    /\ (root_kind # "dir" /\ ~ clean_roo_checkpoints) =>
           /\ pc \in {"main", "error"}
           /\ pc = "error" => failure = "invalid_path"
    /\ root_kind # "dir" =>
           /\ pc \notin {"scan", "clean"}
           /\ ~ summary.printed
           /\ cache = start.cache
    /\ (root_kind = "dir" \/ clean_roo_checkpoints) => failure # "invalid_path"

C4_Witness ==
    /\ root_kind = "file"
    /\ ~ clean_roo_checkpoints
    /\ pc = "error"
    /\ failure = "invalid_path"

(* C5 as claimed: a task whose age is exactly the threshold keeps its
   checkpoints directory and is not reported; a task one time unit older
   loses it (or is reported under dry run). *)
C5_BoundaryNotEligible ==
    \A x \in DirTasks :
        /\ (AgeIsThreshold(StartTask(x)) /\ StartTask(x).checkpoints) =>
               /\ x \notin roo_deleted \cup roo_reported
               /\ tasks[x[1]][x[2]].checkpoints
        /\ (AgeJustOver(StartTask(x)) /\ StartTask(x).checkpoints /\ Processed(x)) =>
               x \in (IF dry_run THEN roo_reported ELSE roo_deleted)

(* C5 as amended: the boundary is inclusive.  A task whose age is exactly the
   threshold, or a nanosecond more, is eligible: its checkpoints directory is
   removed (reported under dry run).  A task a nanosecond younger than the
   threshold is kept. *)
C5_BoundaryEligible ==
    \A x \in DirTasks :
        LET t == StartTask(x)
        IN  /\ ((AgeIsThreshold(t) \/ AgeJustOver(t)) /\ t.checkpoints /\ Processed(x)) =>
                   IF dry_run
                   THEN x \in roo_reported /\ tasks[x[1]][x[2]].checkpoints
                   ELSE x \in roo_deleted /\ ~ tasks[x[1]][x[2]].checkpoints
            /\ AgeJustBelow(t) =>
                   /\ x \notin roo_deleted \cup roo_reported
                   /\ tasks[x[1]][x[2]] = t

C5_Witness ==
    /\ pc = "done"
    /\ ~ dry_run
    /\ \E x \in DirTasks : AgeIsThreshold(StartTask(x)) /\ x \in roo_deleted
    /\ \E x \in DirTasks :
           AgeJustBelow(StartTask(x)) /\ StartTask(x).checkpoints /\ x \in inspected

(* C6: every task directory the pruner has gone through is counted as
   inspected whatever its age; the deleted/eligible counter counts exactly the
   ones that are old enough and have a checkpoints directory, and those are the
   ones removed or reported; at the end of a successful run the total is the
   number of old-enough tasks with a checkpoints directory. *)
C6_RooCounters ==
    pc # "error" =>
        LET done == { x \in DirTasks : Processed(x) }
        IN  /\ inspected = done
            /\ tasks_checked = Cardinality(done)
            /\ checkpoints_targets = Cardinality(done \cap Targets)
            /\ roo_deleted \cup roo_reported = done \cap Targets
            /\ \A x \in done \ Targets : tasks[x[1]][x[2]] = StartTask(x)
            /\ roo_summary.printed =>
                   /\ roo_summary.inspected = Cardinality(DirTasks)
                   /\ roo_summary.targets = Cardinality(Targets)

C6_Witness ==
    /\ roo_summary.printed
    /\ roo_summary.inspected = 3
    /\ roo_summary.targets = 1
    /\ \E x \in DirTasks : OldEnough(StartTask(x)) /\ ~ StartTask(x).checkpoints
    /\ \E x \in DirTasks : ~ OldEnough(StartTask(x)) /\ StartTask(x).checkpoints

KeptOf(p) == Min2(Cardinality(VersionDirs(start.cache, p)))

DeletedOf(p) == Over2(Cardinality(VersionDirs(start.cache, p)))

(* C7: the summary of clean_package_cache, dry run or live, counts the
   package directories with at least one version directory, min(V, 2) kept and
   max(V - 2, 0) deleted versions per package; for the example cache it is
   2 packages, 3 kept, 1 deleted, the deleted one being the oldest of pkgA. *)
C7_Summary ==
    summary.printed =>
        /\ summary.packages = Cardinality({ p \in Pkgs : VersionDirs(start.cache, p) # {} })
        /\ summary.kept = KeptOf("pkgA") + KeptOf("pkgB")
        /\ summary.deleted = DeletedOf("pkgA") + DeletedOf("pkgB")
        /\ summary.kept + summary.deleted =
               Cardinality(VersionDirs(start.cache, "pkgA")) +
               Cardinality(VersionDirs(start.cache, "pkgB"))
        /\ Cardinality(pkg_deleted \cup pkg_reported) = summary.deleted
        /\ start.cache = ExampleCache =>
               /\ summary.packages = 2
               /\ summary.kept = 3
               /\ summary.deleted = 1
               /\ (IF dry_run THEN pkg_reported ELSE pkg_deleted) = { << "pkgA", 1 >> }
               /\ VersionDirs(cache, "pkgB") = {1}
               /\ VersionDirs(cache, "pkgA") = IF dry_run THEN {1, 2, 3} ELSE {2, 3}

C7_Witness ==
    /\ summary.printed
    /\ start.cache = ExampleCache
    /\ ~ dry_run
    /\ run = 1
    /\ pkg_deleted = { << "pkgA", 1 >> }

C8_Stopped ==
    /\ failure # "none" => pc = "error"
    /\ failure \in PackageFailures =>
           /\ ~ summary.printed
           /\ ~ roo_summary.printed
           /\ tasks = start.tasks
           /\ tasks_checked = 0
           /\ inspected = {}
           /\ roo_deleted \cup roo_reported = {}
    /\ failure \in RooFailures => ~ roo_summary.printed
    /\ pc = "error" =>
           /\ failure # "none"
           /\ \A x \in pkg_deleted : cache[x[1]].vers[x[2]].kind = "none"
           /\ \A x \in roo_deleted : ~ tasks[x[1]][x[2]].checkpoints

C8_NothingAfter ==
    failure # "none" =>
        /\ cache' = cache
        /\ tasks' = tasks
        /\ pkg_deleted' = pkg_deleted
        /\ roo_deleted' = roo_deleted
        /\ summary' = summary
        /\ roo_summary' = roo_summary
        /\ pc' = pc

(* C8: a failed filesystem call ends the run in the error state: nothing is
   removed afterwards, the summary of the failed operation is not printed, the
   pruner is not started after a failure of the package cleaner, and what was
   removed before the failure stays removed. *)
C8_FatalStops ==
    [] C8_Stopped /\ [][C8_NothingAfter]_vars

C8_Witness ==
    /\ pc = "error"
    /\ failure = "remove_version"
    /\ clean_roo_checkpoints
    /\ Cardinality(pkg_deleted) = 1
    /\ Len(to_delete) = 1
    /\ Targets # {}

(* C9: a task whose modification time is later than now is never an error
   and never loses its checkpoints directory nor is reported; once the loop
   has gone through it, it is counted as inspected. *)
C9_FutureIsAgeZero ==
    \A x \in DirTasks :
        InFuture(StartTask(x)) =>
            /\ x \notin roo_deleted \cup roo_reported
            /\ tasks[x[1]][x[2]] = StartTask(x)
            /\ Processed(x) => x \in inspected
            /\ (Processed(x) /\ failure = "none") => pc # "error"

C9_Witness ==
    /\ pc = "done"
    /\ ~ dry_run
    /\ roo_deleted # {}
    /\ \E x \in inspected : InFuture(StartTask(x)) /\ tasks[x[1]][x[2]].checkpoints

(* C10: clean_package_cache reads every package directory before it removes
   the first version directory, so a failed directory or metadata read leaves
   the cache as it was, in a live run too. *)
C10_ReadsBeforeDeletes ==
    /\ pc = "scan" =>
           /\ cache = start.cache
           /\ pkg_deleted = {}
           /\ pkg_reported = {}
    /\ failure \in {"read_root", "read_package"} =>
           /\ cache = start.cache
           /\ pkg_deleted = {}
           /\ total_deleted = 0
    /\ pkg_deleted \cup pkg_reported # {} => entry_i > Len(RootEntries)

C10_Witness ==
    /\ failure = "read_package"
    /\ ~ dry_run
    /\ entry_i = 2
    /\ "pkgA" \in DOMAIN packages
    /\ Len(packages["pkgA"]) = 4

====
